---------------------------- MODULE Spec2Model ----------------------------
(***************************************************************************)
(* Boat finder client: reconciliation of the nearby-boats list state with  *)
(* the change feed.  Two revisions of the page are modelled:               *)
(*   Strategy A (refetch-on-write)  and  Strategy B (optimistic merge),    *)
(* both on top of the useNearbyBoats query hook.                           *)
(***************************************************************************)
EXTENDS Integers, Sequences, FiniteSets, TLC

(***************************************************************************)
(* Bounds of the model                                                     *)
(***************************************************************************)
MaxTimers == 2        \* pending setTimeout refetch timers
MaxInflight == 2      \* nearby queries awaiting their response
TickMs == 150         \* largest amount of time one Tick step lets pass
MaxCalls == 1         \* useNearbyBoats on its own: calls awaiting their response
MaxOps == 2           \* backend calls of the hooks awaiting their response
MaxChannels == 5       \* change-feed channels one page opens
MaxBurst == 3         \* change events delivered between two renders
MaxQueries == 2       \* auto-fetch queries of the page that are counted

(***************************************************************************)
(* Program constants                                                       *)
(***************************************************************************)
MoveThresholdM == 50  \* if (distance > 50)
DebounceMs == 300     \* setTimeout(..., 300)

(***************************************************************************)
(* Values                                                                  *)
(***************************************************************************)
Ids == {"b1", "b2"}
Undef == "undefined"                 \* a missing (falsy) id
Throw == "TypeError"                 \* property read on an absent payload
Null == "null"
Positions == {"p1", "p2"}            \* non-null (lat, lon) pairs
Strategies == {"A", "B"}

Absent == [present |-> FALSE]        \* payload.new / payload.old undefined

\* A row of daranee.boats as the change feed delivers it in `new`.
BoatRow(id, ver) ==
    [present |-> TRUE, id |-> id,
     name |-> IF ver = 1 THEN "Daranee" ELSE "Daranee II",
     status |-> IF ver = 1 THEN "available" ELSE "busy",
     boat_type |-> "longtail", capacity |-> 8, price_per_hour |-> 500,
     updated_at |-> ver]

NewPayloads ==
    {Absent, BoatRow(Undef, 1), BoatRow("b1", 1), BoatRow("b1", 2), BoatRow("b2", 1)}

\* Only `old.id` is ever read from the old payload.
OldPayloads == {Absent} \cup {[present |-> TRUE, id |-> i] : i \in Ids \cup {Undef}}

EventTypes == {"INSERT", "UPDATE", "DELETE"}

ChangeEvents == [eventType : EventTypes, new : NewPayloads, old : OldPayloads]

\* A row of find_nearby_boats: the boat plus decoded coordinates and distance.
NearbyRow(id, ver, lat, lon, dist) ==
    [id |-> id,
     name |-> IF ver = 1 THEN "Daranee" ELSE "Daranee II",
     status |-> IF ver = 1 THEN "available" ELSE "busy",
     boat_type |-> "longtail", capacity |-> 8, price_per_hour |-> 500,
     latitude |-> lat, longitude |-> lon,
     updated_at |-> ver, distance_m |-> dist]

R1 == NearbyRow("b1", 1, 13, 100, 800)
R2 == NearbyRow("b2", 1, 14, 101, 4200)

\* Row lists the backend may answer with (rows have distinct ids).
ResponseLists == {<< >>, <<R1>>, <<R1, R2>>, <<R2, R1>>}

\* What `await supabase.schema(..).rpc(..)` can produce.
RpcResults ==
    {[failed |-> FALSE, hasData |-> TRUE, data |-> d] : d \in ResponseLists}
    \cup {[failed |-> FALSE, hasData |-> FALSE, data |-> << >>],
          [failed |-> TRUE, hasData |-> FALSE, data |-> << >>]}

(***************************************************************************)
(* State                                                                   *)
(***************************************************************************)
VARIABLES
    strategy,   \* which revision of the page runs
    boats,      \* useNearbyBoats: list state
    loading,    \* useNearbyBoats: loading flag
    error,      \* useNearbyBoats: error value
    position,   \* page: position state (lat/lon handed to the hook)
    inflight,   \* nearby queries issued and not yet answered
    timers,     \* pending refetch timers of Strategy A
    raised,     \* the change handler threw
    since,      \* time since the last remote call issued by a refetch timer
    last,       \* the last handler that ran, and on what
    hook,       \* useNearbyBoats on its own: options, state, pending calls
    page,       \* page lifecycle: phase, liffReady, lineUserId, error, position
    liff,       \* session bootstrap: what it waits for, and how it ended
    geo,        \* geolocation watch: watchId in use, lastPosition
    feed,       \* change feed: the channels opened so far
    ops,        \* the backend client and the hooks that call it
    leaflet,    \* the map component: selection, centre, camera
    batch       \* the list state's queue of updates between two renders

vars == <<strategy, boats, loading, error, position, inflight, timers,
          raised, since, last, hook, page, liff, geo, feed, ops, leaflet, batch>>

\* The lifecycle of the page: bootstrap, tracker and change-feed channel.
pageVars == <<page, liff, geo, feed>>

\* Everything but the map component.
appVars == <<strategy, boats, loading, error, position, inflight, timers,
             raised, since, last, hook, page, liff, geo, feed, ops, batch>>

\* What the handlers of the page leave alone.
others == <<hook, page, liff, geo, feed, ops, leaflet, batch>>

\* Remote calls in flight plus the ones pending timers will issue: the
\* guards keep it within MaxInflight.
Load == Len(inflight) + Cardinality({i \in 1..Len(timers) : timers[i].pos # Null})

(***************************************************************************)
(* Helpers                                                                 *)
(***************************************************************************)
Min(a, b) == IF a < b THEN a ELSE b

Range(s) == {s[i] : i \in 1..Len(s)}

IdsOf(list) == {list[i].id : i \in 1..Len(list)}

RECURSIVE FilterInverted(_, _)
\* Filter with the test turned around: current.filter((b) => b.id === id)
FilterInverted(list, id) ==
    IF list = << >> THEN << >>
    ELSE IF Head(list).id = id
         THEN <<Head(list)>> \o FilterInverted(Tail(list), id)
         ELSE FilterInverted(Tail(list), id)

RECURSIVE Filter(_, _)
\* current.filter((b) => b.id !== id)
Filter(list, id) ==
    IF list = << >> THEN << >>
    ELSE IF Head(list).id # id
         THEN <<Head(list)>> \o Filter(Tail(list), id)
         ELSE Filter(Tail(list), id)


\* p?.id
OptId(p) == IF p.present THEN p.id ELSE Undef

\* p.id
StrictId(p) == IF p.present THEN p.id ELSE Throw

\* a || b on ids
OrElse(a, b) == IF a # Undef THEN a ELSE b


(***************************************************************************)
(* Strategy B keeps the list as a Map keyed by id.  A Map is modelled as   *)
(* the sequence of its values in insertion order; the key of a value is    *)
(* its id.                                                                 *)
(***************************************************************************)
MapHas(map, key) == \E i \in 1..Len(map) : map[i].id = key

MapIndex(map, key) == CHOOSE i \in 1..Len(map) : map[i].id = key

\* MapSet that pushes the value instead of setting it under its key
MapSetAppend(map, val) == Append(map, val)

\* map.set(val.id, val): an existing key keeps its place, a new key goes last
MapSet(map, val) ==
    IF MapHas(map, val.id)
    THEN [map EXCEPT ![MapIndex(map, val.id)] = val]
    ELSE Append(map, val)

\* map.delete(key)
MapDelete(map, key) == Filter(map, key)

RECURSIVE MapFromList(_)
\* new Map(current.map((b) => [b.id, b]))
MapFromList(list) ==
    IF list = << >> THEN << >>
    ELSE MapSet(MapFromList(SubSeq(list, 1, Len(list) - 1)), list[Len(list)])

\* ExistingDistance that forgets the entry: always the default
ExistingDistanceZero(map, key) == 0

\* existingBoat?.distance_m ?? 0
ExistingDistance(map, key) ==
    IF MapHas(map, key) THEN map[MapIndex(map, key)].distance_m ELSE 0

\* UpdatedBoat that leaves status at a default instead of copying it
UpdatedBoatStatusLost(map, newRow) ==
    [id |-> newRow.id,
     name |-> newRow.name,
     status |-> "available",
     boat_type |-> newRow.boat_type,
     capacity |-> newRow.capacity,
     price_per_hour |-> newRow.price_per_hour,
     latitude |-> 0,
     longitude |-> 0,
     updated_at |-> newRow.updated_at,
     distance_m |-> ExistingDistance(map, newRow.id)]

\* const updatedBoat: NearbyBoat = {...}
UpdatedBoat(map, newRow) ==
    [id |-> newRow.id,
     name |-> newRow.name,
     status |-> newRow.status,
     boat_type |-> newRow.boat_type,
     capacity |-> newRow.capacity,
     price_per_hour |-> newRow.price_per_hour,
     latitude |-> 0,
     longitude |-> 0,
     updated_at |-> newRow.updated_at,
     distance_m |-> ExistingDistance(map, newRow.id)]

(***************************************************************************)
(* The change handler, shared parts                                        *)
(***************************************************************************)
\* Malformed without the guard: nothing is dropped
MalformedNever(e) == FALSE

\* if (!newRow && !oldRow) return;
Malformed(e) == ~e.new.present /\ ~e.old.present

\* DeleteId that prefers the id of `new`
DeleteIdNewFirst(e) == OrElse(OptId(e.new), OptId(e.old))

\* const id = oldRow?.id || newRow?.id;
DeleteId(e) == OrElse(OptId(e.old), OptId(e.new))

Step(op, id, had) == [op |-> op, id |-> id, had |-> had]

(***************************************************************************)
(* Strategy A: refetch-on-write                                            *)
(***************************************************************************)
\* Which branch of the handler an event takes.
BranchA(e) ==
    IF Malformed(e) THEN "drop"
    ELSE IF e.eventType = "DELETE" THEN "delete"
    ELSE IF e.eventType \in {"INSERT", "UPDATE"} THEN "schedule"
    ELSE "none"

\* DeleteA that resolves the id from `new` only
DeleteANewOnly(current, e) ==
    IF OptId(e.new) # Undef THEN Filter(current, OptId(e.new)) ELSE current

\* setBoats((current) => current.filter((b) => b.id !== id)) under if (id)
DeleteA(current, e) ==
    IF DeleteId(e) \notin {Undef, Throw} THEN Filter(current, DeleteId(e)) ELSE current

\* ScheduleA that forgets the timer
ScheduleANone(pending, pos) == pending

\* ScheduleA as a resetting debounce: clearTimeout, then one new timer
ScheduleAReset(pending, pos) == <<[age |-> 0, pos |-> pos]>>

\* setTimeout(() => { refetch(); }, 300): the callback closes over the
\* refetch of the render in which the handler was created.
ScheduleA(pending, pos) == Append(pending, [age |-> 0, pos |-> pos])

\* ListAfterA that merges the payload of an INSERT/UPDATE as Strategy B does
ListAfterAMerge(current, e) ==
    IF BranchA(e) = "delete" THEN DeleteA(current, e)
    ELSE IF BranchA(e) = "schedule" /\ e.new.present
         THEN MapSet(MapFromList(current), UpdatedBoat(MapFromList(current), e.new))
         ELSE current

\* List state after the handler ran on e.
ListAfterA(current, e) ==
    IF BranchA(e) = "delete" THEN DeleteA(current, e) ELSE current

\* Pending timers after the handler ran on e.
TimersAfterA(pending, pos, e) ==
    IF BranchA(e) = "schedule" THEN ScheduleA(pending, pos) ELSE pending

\* The handler only reads ids through optional chaining.
ThrowsA(e) == BranchA(e) = "delete" /\ DeleteId(e) = Throw

(***************************************************************************)
(* Strategy B: optimistic merge                                            *)
(***************************************************************************)
BranchB(e) ==
    IF Malformed(e) THEN "drop"
    ELSE IF e.eventType = "DELETE" THEN "delete"
    ELSE IF e.new.present THEN "merge"
    ELSE "none"

\* The handler reads newRow.id, newRow.name, ... in the merge branch.
ThrowsB(e) ==
    \/ BranchB(e) = "merge" /\ StrictId(e.new) = Throw
    \/ BranchB(e) = "delete" /\ DeleteId(e) = Throw

\* UpdaterB that lets an UPDATE change only a row the list has
UpdaterBKnownOnly(current, e) ==
    LET map == MapFromList(current) IN
    IF BranchB(e) = "delete"
    THEN IF DeleteId(e) \notin {Undef, Throw} THEN MapDelete(map, DeleteId(e)) ELSE map
    ELSE IF BranchB(e) = "merge" /\ (e.eventType = "UPDATE" => MapHas(map, e.new.id))
         THEN MapSet(map, UpdatedBoat(map, e.new))
         ELSE map

\* The updater handed to setBoats.
UpdaterB(current, e) ==
    LET map == MapFromList(current) IN
    IF BranchB(e) = "delete"
    THEN IF DeleteId(e) \notin {Undef, Throw} THEN MapDelete(map, DeleteId(e)) ELSE map
    ELSE IF BranchB(e) = "merge"
         THEN MapSet(map, UpdatedBoat(map, e.new))
         ELSE map

\* List state after the handler ran on e (a handler that throws sets nothing).
ListAfterB(current, e) ==
    IF BranchB(e) = "drop" \/ ThrowsB(e) THEN current ELSE UpdaterB(current, e)

(***************************************************************************)
(* The handler of the running revision                                     *)
(***************************************************************************)
ListAfter(s, current, e) ==
    IF s = "A" THEN ListAfterA(current, e) ELSE ListAfterB(current, e)

TimersAfter(s, pending, pos, e) ==
    IF s = "A" THEN TimersAfterA(pending, pos, e) ELSE pending

Throws(s, e) == IF s = "A" THEN ThrowsA(e) ELSE ThrowsB(e)

\* The id an event is about: the id a DELETE resolves, the id of `new` otherwise.
EventId(e) == IF e.eventType = "DELETE" THEN DeleteId(e) ELSE OptId(e.new)

HandleRealtimeA(e) ==
    /\ strategy = "A"
    /\ BranchA(e) = "schedule" =>
           /\ Len(timers) < MaxTimers
           /\ position # Null => Load < MaxInflight
    /\ boats' = ListAfterA(boats, e)
    /\ timers' = TimersAfterA(timers, position, e)
    /\ raised' = (raised \/ ThrowsA(e))
    /\ last' = Step(BranchA(e), EventId(e), EventId(e) \in IdsOf(boats))
    /\ UNCHANGED <<strategy, loading, error, position, inflight, since>>
    /\ UNCHANGED others

HandleRealtimeB(e) ==
    /\ strategy = "B"
    /\ boats' = ListAfterB(boats, e)
    /\ raised' = (raised \/ ThrowsB(e))
    /\ last' = Step(BranchB(e), EventId(e), EventId(e) \in IdsOf(boats))
    /\ UNCHANGED <<strategy, loading, error, position, inflight, timers, since>>
    /\ UNCHANGED others

(***************************************************************************)
(* useNearbyBoats                                                          *)
(***************************************************************************)
\* fetchNearby up to the await: the null guard, setLoading(true),
\* setError(null) and the remote call.
FetchNearby(pos) ==
    IF pos = Null
    THEN UNCHANGED <<loading, error, inflight>>
    ELSE /\ loading' = TRUE
         /\ error' = Null
         /\ inflight' = Append(inflight, [pos |-> pos, overtaken |-> FALSE])

\* What setBoats((data as NearbyBoat[]) || []) stores.
DataOrEmpty(res) == IF res.hasData THEN res.data ELSE << >>

\* The requests still waiting once the answer of request k has arrived: no
\* request is cancelled; the ones issued before request k are now answered
\* later than a request issued after them.
StillInflight(reqs, k) ==
    [i \in 1..(Len(reqs) - 1) |->
        IF i < k THEN [reqs[i] EXCEPT !.overtaken = TRUE] ELSE reqs[i + 1]]

\* RpcReturns that merges the rows into the list instead of replacing it
RpcReturnsMerge(k, res) ==
    /\ k \in 1..Len(inflight)
    /\ inflight' = StillInflight(inflight, k)
    /\ boats' = IF res.failed THEN boats ELSE boats \o DataOrEmpty(res)
    /\ error' = IF res.failed THEN "rpc error" ELSE error
    /\ loading' = FALSE
    /\ last' = Step(IF res.failed THEN "rpcFailed" ELSE "rpcOk",
                    IF inflight[k].overtaken THEN "overtaken" ELSE Undef,
                    boats' # boats)
    /\ UNCHANGED <<strategy, position, timers, raised, since>>
    /\ UNCHANGED others

\* RpcReturns that clears the list when the query failed
RpcReturnsClear(k, res) ==
    /\ k \in 1..Len(inflight)
    /\ inflight' = StillInflight(inflight, k)
    /\ boats' = IF res.failed THEN << >> ELSE DataOrEmpty(res)
    /\ error' = IF res.failed THEN "rpc error" ELSE error
    /\ loading' = FALSE
    /\ last' = Step(IF res.failed THEN "rpcFailed" ELSE "rpcOk",
                    IF inflight[k].overtaken THEN "overtaken" ELSE Undef,
                    boats' # boats)
    /\ UNCHANGED <<strategy, position, timers, raised, since>>
    /\ UNCHANGED others

\* RpcReturns that drops the answer of a request when a later request has
\* been answered already
RpcReturnsLatestOnly(k, res) ==
    /\ k \in 1..Len(inflight)
    /\ inflight' = StillInflight(inflight, k)
    /\ boats' = IF res.failed \/ inflight[k].overtaken THEN boats ELSE DataOrEmpty(res)
    /\ error' = IF res.failed THEN "rpc error" ELSE error
    /\ loading' = FALSE
    /\ last' = Step(IF res.failed THEN "rpcFailed" ELSE "rpcOk",
                    IF inflight[k].overtaken THEN "overtaken" ELSE Undef,
                    boats' # boats)
    /\ UNCHANGED <<strategy, position, timers, raised, since>>
    /\ UNCHANGED others

\* fetchNearby after the await: the answer of request k arrives.
RpcReturns(k, res) ==
    /\ k \in 1..Len(inflight)
    /\ inflight' = StillInflight(inflight, k)
    /\ boats' = IF res.failed THEN boats ELSE DataOrEmpty(res)
    /\ error' = IF res.failed THEN "rpc error" ELSE error
    /\ loading' = FALSE
    /\ last' = Step(IF res.failed THEN "rpcFailed" ELSE "rpcOk",
                    IF inflight[k].overtaken THEN "overtaken" ELSE Undef,
                    boats' # boats)
    /\ UNCHANGED <<strategy, position, timers, raised, since>>
    /\ UNCHANGED others

\* The page hands a new position to the hook; the auto-fetch effect runs.
SetPosition(p) ==
    /\ p # position
    /\ Load < MaxInflight
    /\ position' = p
    /\ FetchNearby(p)
    /\ last' = Step("position", Undef, FALSE)
    /\ UNCHANGED <<strategy, boats, timers, raised, since>>
    /\ UNCHANGED others

(***************************************************************************)
(* Timers                                                                  *)
(***************************************************************************)
Due(t) == t.age >= DebounceMs

\* The oldest due timer runs its callback: refetch().
TimerFire ==
    /\ timers # << >>
    /\ Due(Head(timers))
    /\ timers' = Tail(timers)
    /\ FetchNearby(Head(timers).pos)
    /\ since' = IF Head(timers).pos # Null THEN 0 ELSE since
    /\ last' = Step("refetch", Undef, FALSE)
    /\ UNCHANGED <<strategy, boats, position, raised>>
    /\ UNCHANGED others

\* Time passes, but never past the moment a timer is due.
Elapse(pending) ==
    IF pending = << >> THEN TickMs
    ELSE Min(TickMs, DebounceMs - Head(pending).age)

Tick ==
    /\ \A i \in 1..Len(timers) : ~Due(timers[i])
    /\ timers # << >> \/ since < DebounceMs
    /\ timers' = [i \in 1..Len(timers) |->
                     [timers[i] EXCEPT !.age = @ + Elapse(timers)]]
    /\ since' = Min(since + Elapse(timers), DebounceMs)
    /\ UNCHANGED <<strategy, boats, loading, error, position, inflight, raised, last>>
    /\ UNCHANGED others

(***************************************************************************)
(* useNearbyBoats on its own: options, auto-fetch effect, manual refetch   *)
(***************************************************************************)
HookLats == {Null, "13.7563", "13.8000"}
HookLons == {Null, "100.5018"}
HookRadii == {"5", "10"}
HookStatuses == {Null, "available"}

\* The options object a render passes; radius_km, status may be left out.
HookOptions ==
    [lat : HookLats, lon : HookLons, radius_km : HookRadii \cup {Undef},
     status : HookStatuses \cup {Undef}, autoFetch : BOOLEAN]

\* The destructuring defaults: radius_km = 5, status = null.
DefaultRadiusKm == "5"

Destructure(opts) ==
    [lat |-> opts.lat, lon |-> opts.lon,
     radiusKm |-> IF opts.radius_km = Undef THEN DefaultRadiusKm ELSE opts.radius_km,
     status |-> IF opts.status = Undef THEN Null ELSE opts.status,
     autoFetch |-> opts.autoFetch]

\* The dependency list of the auto-fetch effect.
Deps(h) == <<h.lat, h.lon, h.radiusKm, h.status, h.autoFetch>>

\* The optional argument of fetchNearby: every field may be left out.
NoParams == [lat |-> Undef, lon |-> Undef, radius_km |-> Undef, boat_status |-> Undef]
RefetchParams ==
    {NoParams, [NoParams EXCEPT !.lat = "13.8000"], [NoParams EXCEPT !.radius_km = "10"],
     [NoParams EXCEPT !.lat = "13.7563", !.lon = "100.5018", !.boat_status = "available"]}

\* a ?? b
Nullish(a, b) == IF a \in {Undef, Null} THEN b ELSE a

RpcParams(h, params) ==
    [lat |-> Nullish(params.lat, h.lat), lon |-> Nullish(params.lon, h.lon),
     radius_km |-> Nullish(params.radius_km, h.radiusKm),
     boat_status |-> Nullish(params.boat_status, h.status)]

\* fetchNearby up to the await, as a function of the hook's state
FetchNearbyWith(h, params) ==
    LET q == RpcParams(h, params) IN
    IF q.lat = Null \/ q.lon = Null
    THEN h
    ELSE [h EXCEPT !.loading = TRUE, !.error = Null,
                   !.calls = Append(@, q), !.issued = TRUE]

\* The body of the auto-fetch effect.
AutoFetchEffect(h) ==
    IF ~h.autoFetch THEN h
    ELSE IF h.lat = Null \/ h.lon = Null THEN h
    ELSE FetchNearbyWith(h, NoParams)

WithOptions(h, opts) ==
    LET o == Destructure(opts) IN
    [h EXCEPT !.lat = o.lat, !.lon = o.lon, !.radiusKm = o.radiusKm,
              !.status = o.status, !.autoFetch = o.autoFetch]

\* AfterRender whose effect runs after every render
AfterRenderAlways(h, opts) ==
    AutoFetchEffect([WithOptions(h, opts) EXCEPT !.step = "render", !.issued = FALSE])

\* A render with options opts, and the effects that run after it.
AfterRender(h, opts) ==
    LET h1 == [WithOptions(h, opts) EXCEPT !.step = "render", !.issued = FALSE] IN
    IF Deps(h1) # Deps(h) THEN AutoFetchEffect(h1) ELSE h1

HookInit ==
    [mounted |-> FALSE, lat |-> Null, lon |-> Null, radiusKm |-> DefaultRadiusKm,
     status |-> Null, autoFetch |-> FALSE,
     boats |-> << >>, loading |-> FALSE, error |-> Null, calls |-> << >>,
     step |-> "init", issued |-> FALSE]

\* The first render: every effect runs.
HookMount(opts) ==
    /\ ~hook.mounted
    /\ hook' = AutoFetchEffect([WithOptions(hook, opts) EXCEPT
                                   !.mounted = TRUE, !.step = "mount", !.issued = FALSE])
    /\ UNCHANGED <<strategy, boats, loading, error, position, inflight, timers,
                   raised, since, last>>
    /\ UNCHANGED pageVars
    /\ UNCHANGED <<ops, leaflet, batch>>

HookRender(opts) ==
    /\ hook.mounted
    /\ Len(AfterRender(hook, opts).calls) <= MaxCalls
    /\ hook' = AfterRender(hook, opts)
    /\ UNCHANGED <<strategy, boats, loading, error, position, inflight, timers,
                   raised, since, last>>
    /\ UNCHANGED pageVars
    /\ UNCHANGED <<ops, leaflet, batch>>

\* refetch(params) called by the page.
HookRefetch(params) ==
    /\ hook.mounted
    /\ Len(hook.calls) < MaxCalls
    /\ hook' = FetchNearbyWith([hook EXCEPT !.step = "refetch", !.issued = FALSE], params)
    /\ UNCHANGED <<strategy, boats, loading, error, position, inflight, timers,
                   raised, since, last>>
    /\ UNCHANGED pageVars
    /\ UNCHANGED <<ops, leaflet, batch>>

\* fetchNearby after the await.
HookRpcReturns(k, res) ==
    /\ k \in 1..Len(hook.calls)
    /\ hook' = [hook EXCEPT
                   !.calls = SubSeq(@, 1, k - 1) \o SubSeq(@, k + 1, Len(@)),
                   !.boats = IF res.failed THEN @ ELSE DataOrEmpty(res),
                   !.error = IF res.failed THEN "rpc error" ELSE @,
                   !.loading = FALSE,
                   !.step = "rpc", !.issued = FALSE]
    /\ UNCHANGED <<strategy, boats, loading, error, position, inflight, timers,
                   raised, since, last>>
    /\ UNCHANGED pageVars
    /\ UNCHANGED <<ops, leaflet, batch>>

(***************************************************************************)
(* The page's lifecycle: session bootstrap, geolocation watch, change feed *)
(***************************************************************************)
\* Positions of the tracker lie on one meridian and are given in metres
\* north of a reference point: with deltaLon = 0 the haversine formula
\* gives R * |deltaLat|, the difference of the two values.
NoFix == [fix |-> FALSE]
Fix(m) == [fix |-> TRUE, m |-> m]
Samples == {0, 30, 50, 60, 110, 1000, 1010}

\* The mock location of dev mode; a sample may lie on it or next to it.
DevPosition == Fix(1000)

Abs(x) == IF x < 0 THEN 0 - x ELSE x

CalculateDistance(pos1, pos2) == Abs(pos2.m - pos1.m)

\* Accepts that lets a sample at exactly the threshold through
AcceptsFromThreshold(lastPosition, newPosition) ==
    IF ~lastPosition.fix THEN TRUE
    ELSE CalculateDistance(lastPosition, newPosition) >= MoveThresholdM

\* Strategy A's gate in the watchPosition callback.
Accepts(lastPosition, newPosition) ==
    IF ~lastPosition.fix THEN TRUE
    ELSE CalculateDistance(lastPosition, newPosition) > MoveThresholdM

\* PositionAfter that gates the first sample against the position the page
\* already shows
PositionAfterGatesFirst(s, g, current, newPosition) ==
    IF s = "A"
    THEN IF Accepts(IF g.lastPosition.fix THEN g.lastPosition ELSE current, newPosition)
         THEN newPosition ELSE current
    ELSE newPosition

\* Position state after the watchPosition callback got newPosition.
PositionAfter(s, g, current, newPosition) ==
    IF s = "A"
    THEN IF Accepts(g.lastPosition, newPosition) THEN newPosition ELSE current
    ELSE newPosition

\* The watch after its callback got newPosition; page B keeps no reference.
WatchAfter(s, g, newPosition) ==
    IF s = "A"
    THEN IF Accepts(g.lastPosition, newPosition)
         THEN [g EXCEPT !.lastPosition = newPosition, !.raw = newPosition]
         ELSE [g EXCEPT !.raw = newPosition]
    ELSE [g EXCEPT !.raw = newPosition]

\* channel.unsubscribe() on the channel of the current effect
CloseLast(channels) ==
    [i \in 1..Len(channels) |->
        IF i = Len(channels)
        THEN [state |-> "closed", closes |-> channels[i].closes + 1]
        ELSE channels[i]]

Subscribe(channels) == Append(channels, [state |-> "joining", closes |-> 0])

\* Resubscribe that opens the new channel and leaves the old one open
ResubscribeLeak(f) == [f EXCEPT !.channels = Subscribe(@)]

\* useRealtimeBoats' effect when onChange changed: cleanup, then the effect.
Resubscribe(f) == [f EXCEPT !.channels = Subscribe(CloseLast(@))]

\* A render of the page. Page A's handleRealtime depends on refetch, which
\* is a new function in every render, so the effect of useRealtimeBoats
\* runs again; page B's depends on setBoats only.
Rerender(s, f) == IF s = "A" THEN Resubscribe(f) ELSE f

\* useNearbyBoats' auto-fetch effect in the render that follows: lat or lon
\* changed and neither is null, so fetchNearby issues a query.
AutoFetches(p0, p1) == p1.position # p0.position /\ p1.position.fix

\* The renders that follow a handler which turned page state p0 into p1:
\* the geolocation effect runs when liffReady changed, and sets the error
\* (one more render) when the browser has no geolocation.
Committed(s, p0, p1, g1, f0) ==
    LET starts == p1.liffReady /\ ~p0.liffReady
        unsupported == starts /\ ~g1.supported IN
    [page |-> [(IF unsupported THEN [p1 EXCEPT !.error = "geolocation unsupported"] ELSE p1)
                  EXCEPT !.queries = IF AutoFetches(p0, p1) THEN Min(@ + 1, MaxQueries) ELSE @],
     geo |-> IF starts /\ g1.supported THEN [g1 EXCEPT !.watching = TRUE, !.started = TRUE] ELSE g1,
     feed |-> IF p1 = p0 THEN f0
              ELSE IF unsupported THEN Rerender(s, Rerender(s, f0))
              ELSE Rerender(s, f0)]

Commit(p1, g1) ==
    LET c == Committed(strategy, page, p1, g1, feed) IN
    /\ Len(c.feed.channels) <= MaxChannels
    /\ page' = c.page
    /\ geo' = c.geo
    /\ feed' = c.feed

\* A state setter called after unmount changes nothing.
IfMounted(p1) == IF page.phase = "mounted" THEN p1 ELSE page

PageInit ==
    [phase |-> "new", liffReady |-> FALSE, lineUserId |-> Null, error |-> Null,
     position |-> NoFix, queries |-> 0]
LiffInit ==
    [pc |-> "start", liffId |-> FALSE, outcome |-> "none", stored |-> Null,
     sdkUsed |-> FALSE, loggedIn |-> FALSE, asked |-> FALSE, userId |-> Null,
     failure |-> "none", caught |-> "none"]
GeoInit ==
    [supported |-> FALSE, watching |-> FALSE, started |-> FALSE, cleared |-> 0,
     lastPosition |-> NoFix, raw |-> NoFix]
FeedInit == [channels |-> << >>, lastEvent |-> "none"]

\* What the page finds when it mounts: a configured LIFF id, the SDK's
\* script tag already in the document, window.liff, navigator.geolocation.
Environments ==
    [liffId : BOOLEAN, scriptTag : BOOLEAN, sdk : BOOLEAN, geolocation : BOOLEAN]

\* initLiff up to liff.init().
InitLiff(sdk, p) ==
    IF ~sdk
    THEN [page |-> [p EXCEPT !.error = "sdk not loaded"], pc |-> "done", outcome |-> "no sdk"]
    ELSE [page |-> p, pc |-> "init", outcome |-> "none"]

\* LiffEffect without the dev-mode branch
LiffEffectNoDev(s, env, p) ==
    IF ~env.scriptTag
    THEN [page |-> p, pc |-> "script", outcome |-> "none"]
    ELSE InitLiff(env.sdk, p)

\* The body of the LIFF effect; only page A has the dev mode.
LiffEffect(s, env, p) ==
    IF s = "A" /\ ~env.liffId
    THEN [page |-> [p EXCEPT !.liffReady = TRUE, !.error = "dev mode",
                             !.position = DevPosition],
          pc |-> "done", outcome |-> "dev mode"]
    ELSE IF ~env.scriptTag
    THEN [page |-> p, pc |-> "script", outcome |-> "none"]
    ELSE InitLiff(env.sdk, p)

\* The first render and its effects.
PageMount(env) ==
    /\ page.phase = "new"
    /\ LET p0 == [page EXCEPT !.phase = "mounted"]
           l == LiffEffect(strategy, env, p0)
           c == Committed(strategy, p0, l.page, [geo EXCEPT !.supported = env.geolocation],
                          [feed EXCEPT !.channels = Subscribe(@)]) IN
       /\ Len(c.feed.channels) <= MaxChannels
       /\ page' = c.page
       /\ geo' = c.geo
       /\ feed' = c.feed
       /\ liff' = [liff EXCEPT !.pc = l.pc, !.liffId = env.liffId, !.outcome = l.outcome,
                               !.sdkUsed = l.outcome # "dev mode"]
    /\ UNCHANGED <<strategy, boats, loading, error, position, inflight, timers,
                   raised, since, last, hook, ops, leaflet, batch>>

\* script.onload
ScriptOnload(sdk) ==
    /\ liff.pc = "script"
    /\ LET l == InitLiff(sdk, page) IN
       /\ Commit(IfMounted(l.page), geo)
       /\ liff' = [liff EXCEPT !.pc = l.pc, !.outcome = l.outcome]
    /\ UNCHANGED <<strategy, boats, loading, error, position, inflight, timers,
                   raised, since, last, hook, ops, leaflet, batch>>

\* The script fails to load: the script element has no onerror.
ScriptError ==
    /\ liff.pc = "script"
    /\ liff' = [liff EXCEPT !.pc = "done", !.outcome = "script error"]
    /\ UNCHANGED <<page, geo, feed>>
    /\ UNCHANGED <<strategy, boats, loading, error, position, inflight, timers,
                   raised, since, last, hook, ops, leaflet, batch>>

\* liff.init() resolves; an empty LIFF id cannot initialise.
InitResolves(inClient, isLoggedIn) ==
    /\ liff.pc = "init"
    /\ liff.liffId
    /\ IF strategy = "A" /\ ~inClient
       THEN /\ Commit(IfMounted([page EXCEPT !.error = "open in LINE", !.liffReady = TRUE]), geo)
            /\ liff' = [liff EXCEPT !.pc = "done", !.outcome = "outside client",
                                    !.loggedIn = isLoggedIn]
       ELSE /\ Commit(IfMounted([page EXCEPT !.liffReady = TRUE]), geo)
            /\ liff' = [liff EXCEPT !.pc = IF isLoggedIn THEN "profile" ELSE "done",
                                    !.outcome = "initialised",
                                    !.loggedIn = isLoggedIn, !.asked = isLoggedIn]
    /\ UNCHANGED <<strategy, boats, loading, error, position, inflight, timers,
                   raised, since, last, hook, ops, leaflet, batch>>

\* liff.init() rejects: only page A falls back to ready.
InitRejects ==
    /\ liff.pc = "init"
    /\ Commit(IfMounted([page EXCEPT !.error = "init failed",
                                     !.liffReady = IF strategy = "A" THEN TRUE ELSE @]), geo)
    /\ liff' = [liff EXCEPT !.pc = "done", !.outcome = "init rejected",
                            !.failure = "init", !.caught = "init"]
    /\ UNCHANGED <<strategy, boats, loading, error, position, inflight, timers,
                   raised, since, last, hook, ops, leaflet, batch>>

Profiles == {"rejected", "no userId", "U1"}

\* liff.getProfile() settles.
ProfileReturns(profile) ==
    /\ liff.pc = "profile"
    /\ IF profile \in {"rejected", "no userId"}
       THEN /\ Commit(page, geo)
            /\ liff' = [liff EXCEPT !.pc = "done",
                                    !.failure = IF profile = "rejected" THEN "profile" ELSE @,
                                    !.caught = IF profile = "rejected" THEN "profile" ELSE @]
       ELSE /\ Commit(IfMounted([page EXCEPT !.lineUserId = profile]), geo)
            /\ liff' = [liff EXCEPT !.pc = "done", !.stored = profile, !.userId = profile]
    /\ UNCHANGED <<strategy, boats, loading, error, position, inflight, timers,
                   raised, since, last, hook, ops, leaflet, batch>>

\* watchPosition's success callback: the browser calls it while the watch
\* is registered.
PositionSample(m) ==
    /\ geo.watching
    /\ LET p1 == [page EXCEPT !.position = PositionAfter(strategy, geo, @, Fix(m))]
           g1 == WatchAfter(strategy, geo, Fix(m)) IN
       IF p1 = page /\ (strategy = "B" \/ Accepts(geo.lastPosition, Fix(m)))
       THEN \* setPosition got a new object with the coordinates it had: the
            \* page renders again, no dependency of the hook changed
            /\ Len(Rerender(strategy, feed).channels) <= MaxChannels
            /\ page' = page
            /\ geo' = g1
            /\ feed' = Rerender(strategy, feed)
       ELSE Commit(p1, g1)
    /\ UNCHANGED liff
    /\ UNCHANGED <<strategy, boats, loading, error, position, inflight, timers,
                   raised, since, last, hook, ops, leaflet, batch>>

\* PositionError that also forgets the position and the reference
PositionErrorResets ==
    /\ geo.watching
    /\ Commit([page EXCEPT !.error = "geolocation error", !.position = NoFix],
              [geo EXCEPT !.lastPosition = NoFix])
    /\ UNCHANGED liff
    /\ UNCHANGED <<strategy, boats, loading, error, position, inflight, timers,
                   raised, since, last, hook, ops, leaflet, batch>>

\* watchPosition's error callback.
PositionError ==
    /\ geo.watching
    /\ Commit([page EXCEPT !.error = "geolocation error"], geo)
    /\ UNCHANGED liff
    /\ UNCHANGED <<strategy, boats, loading, error, position, inflight, timers,
                   raised, since, last, hook, ops, leaflet, batch>>

\* useNearbyBoats changed boats, loading or error: the page renders again.
HookStateUpdate ==
    /\ page.phase = "mounted"
    /\ Len(Rerender(strategy, feed).channels) <= MaxChannels
    /\ feed' = Rerender(strategy, feed)
    /\ UNCHANGED <<page, liff, geo>>
    /\ UNCHANGED <<strategy, boats, loading, error, position, inflight, timers,
                   raised, since, last, hook, ops, leaflet, batch>>

Joined(f) ==
    /\ f.channels # << >>
    /\ f.channels[Len(f.channels)].state = "joined"

\* The server acknowledges the subscription of the open channel.
ChannelJoined ==
    /\ feed.channels # << >>
    /\ feed.channels[Len(feed.channels)].state = "joining"
    /\ feed' = [feed EXCEPT !.channels[Len(feed.channels)].state = "joined"]
    /\ UNCHANGED <<page, liff, geo>>
    /\ UNCHANGED <<strategy, boats, loading, error, position, inflight, timers,
                   raised, since, last, hook, ops, leaflet, batch>>

\* A row of daranee.boats changes: the joined channel delivers the event;
\* it is missed when the page has closed a channel and its next channel has
\* not joined yet.
RowChanges ==
    /\ page.phase # "new"
    /\ feed' = [feed EXCEPT !.lastEvent =
                   IF Joined(feed) THEN "delivered"
                   ELSE IF page.phase = "mounted" /\ Len(feed.channels) > 1 THEN "missed"
                   ELSE "unheard"]
    /\ UNCHANGED <<page, liff, geo>>
    /\ UNCHANGED <<strategy, boats, loading, error, position, inflight, timers,
                   raised, since, last, hook, ops, leaflet, batch>>

\* The page unmounts: every effect's cleanup runs.
Unmount ==
    /\ page.phase = "mounted"
    /\ page' = [page EXCEPT !.phase = "gone"]
    /\ feed' = [feed EXCEPT !.channels = CloseLast(@)]
    /\ geo' = IF geo.started
              THEN [geo EXCEPT !.watching = FALSE, !.cleared = @ + 1]
              ELSE geo
    /\ UNCHANGED liff
    /\ UNCHANGED <<strategy, boats, loading, error, position, inflight, timers,
                   raised, since, last, hook, ops, leaflet, batch>>

(***************************************************************************)
(* The backend client (real or mock) and the hooks that call it            *)
(***************************************************************************)
\* The methods of the object a chain of calls arrives at, for the mock
\* client: createMockClient defines from, rpc, channel and auth; channel()
\* gives on, subscribe and unsubscribe; on() gives subscribe; that
\* subscribe() gives unsubscribe.
MockShape(path) ==
    IF path = << >> THEN {"from", "rpc", "channel", "auth"}
    ELSE IF path = <<"channel">> THEN {"on", "subscribe", "unsubscribe"}
    ELSE IF path = <<"channel", "on">> THEN {"subscribe"}
    ELSE IF path = <<"channel", "on", "subscribe">> THEN {"unsubscribe"}
    ELSE {}

\* The real client has every method the hooks call.
HasMethod(client, path, method) ==
    IF client = "mock" THEN method \in MockShape(path) ELSE TRUE

\* Calling the methods of chain one after the other, starting at the
\* client: a method that is missing raises a TypeError.
RECURSIVE ChainFrom(_, _, _)
ChainFrom(client, path, chain) ==
    IF chain = << >> THEN "called"
    ELSE IF ~HasMethod(client, path, Head(chain)) THEN Throw
    ELSE ChainFrom(client, Append(path, Head(chain)), Tail(chain))

CallChain(client, chain) == ChainFrom(client, << >>, chain)

NotConfigured == "Supabase not configured"

\* The operations of useBoatOperations and the chain each one calls.
BoatOps == {"updateBoatStatus", "checkAvailability", "createBooking"}
NearbyOp == "fetchNearby"
RemoteOps == BoatOps \cup {NearbyOp}

RemoteChain(op) == IF op = NearbyOp THEN <<"schema", "rpc">> ELSE <<"rpc">>

\* What an awaited rpc settles with: the mock resolves with its error.
Outcomes(client) ==
    IF client = "mock" THEN {NotConfigured} ELSE {"ok", "rpc error", "rejected"}

\* What an operation returns to its caller when it failed.
FailureValue(op) ==
    IF op = "checkAvailability" THEN "false"
    ELSE IF op = NearbyOp THEN "undefined"
    ELSE "null"

\* The state of the hook that owns op: useNearbyBoats or useBoatOperations.
HookOf(op) == IF op = NearbyOp THEN "nearby" ELSE "boat"

\* Failed without the finally block
FailedNoFinally(o, op, err) ==
    [o EXCEPT !.error[HookOf(op)] = err,
              !.returned = FailureValue(op),
              !.lastOp = op]

\* The catch and finally blocks of an operation that failed with err.
Failed(o, op, err) ==
    [o EXCEPT !.loading[HookOf(op)] = FALSE,
              !.error[HookOf(op)] = err,
              !.returned = FailureValue(op),
              !.lastOp = op]

\* The try block's end and the finally block of an operation that succeeded.
Succeeded(o, op) ==
    [o EXCEPT !.loading[HookOf(op)] = FALSE,
              !.returned = "data",
              !.lastOp = op]

\* An operation up to its await: setLoading(true), setError(null), then
\* the call chain, inside the try block.
Started(o, op) ==
    LET o1 == [o EXCEPT !.loading[HookOf(op)] = TRUE, !.error[HookOf(op)] = Null] IN
    IF CallChain(o.client, RemoteChain(op)) = Throw
    THEN Failed(o1, op, Throw)
    ELSE [o1 EXCEPT !.pending = Append(@, op), !.lastOp = "none"]

OpsInit ==
    [client |-> "none",
     loading |-> [h \in {"nearby", "boat"} |-> FALSE],
     error |-> [h \in {"nearby", "boat"} |-> Null],
     pending |-> << >>, returned |-> "none", lastOp |-> "none",
     channel |-> "none", crashed |-> FALSE]

\* supabaseClient is loaded: with both environment variables the real
\* client is created, otherwise the mock.
CreateClient(hasEnvVars) ==
    /\ ops.client = "none"
    /\ ops' = [ops EXCEPT !.client = IF hasEnvVars THEN "real" ELSE "mock"]
    /\ UNCHANGED <<strategy, boats, loading, error, position, inflight, timers,
                   raised, since, last, hook, leaflet, batch>>
    /\ UNCHANGED pageVars

CallRemote(op) ==
    /\ ops.client # "none"
    /\ Len(ops.pending) < MaxOps
    /\ ops' = Started(ops, op)
    /\ UNCHANGED <<strategy, boats, loading, error, position, inflight, timers,
                   raised, since, last, hook, leaflet, batch>>
    /\ UNCHANGED pageVars

\* The awaited rpc of pending operation k settles.
RemoteSettles(k, outcome) ==
    /\ k \in 1..Len(ops.pending)
    /\ outcome \in Outcomes(ops.client)
    /\ LET op == ops.pending[k]
           o1 == [ops EXCEPT !.pending = SubSeq(@, 1, k - 1) \o SubSeq(@, k + 1, Len(@))] IN
       ops' = IF outcome = "ok" THEN Succeeded(o1, op) ELSE Failed(o1, op, outcome)
    /\ UNCHANGED <<strategy, boats, loading, error, position, inflight, timers,
                   raised, since, last, hook, leaflet, batch>>
    /\ UNCHANGED pageVars

\* useRealtimeBoats' effect on this client: nothing catches what it throws.
OpenChannel ==
    /\ ops.client # "none"
    /\ ops.channel \in {"none", "closed"}
    /\ ~ops.crashed
    /\ ops' = IF CallChain(ops.client, <<"channel", "on", "subscribe">>) = Throw
              THEN [ops EXCEPT !.crashed = TRUE]
              ELSE [ops EXCEPT !.channel = "open"]
    /\ UNCHANGED <<strategy, boats, loading, error, position, inflight, timers,
                   raised, since, last, hook, leaflet, batch>>
    /\ UNCHANGED pageVars

\* The effect's cleanup: unsubscribe() on what subscribe() returned.
CloseChannel ==
    /\ ops.channel = "open"
    /\ ops' = IF CallChain(ops.client, <<"channel", "on", "subscribe", "unsubscribe">>) = Throw
              THEN [ops EXCEPT !.crashed = TRUE]
              ELSE [ops EXCEPT !.channel = "closed"]
    /\ UNCHANGED <<strategy, boats, loading, error, position, inflight, timers,
                   raised, since, last, hook, leaflet, batch>>
    /\ UNCHANGED pageVars

(***************************************************************************)
(* The map component.  Two revisions exist: components/LeafletMap.tsx,     *)
(* which knows nothing of the selection, and the later one that receives   *)
(* the page's selectedBoat.                                                *)
(***************************************************************************)
MapVariants == {"components", "selection"}

\* `status` is typed as BoatStatus but arrives as a database string.
MarkerStatuses == {"available", "busy", "booked", "maintenance", "retired"}

\* What the map reads of a boat.  Latitude and longitude are 0 while the
\* row has no decoded location, and may also be 0 on their own.
MapBoats == [id : Ids, status : MarkerStatuses, latitude : {0, 13}, longitude : {0, 100}]

NoSelection == [selected |-> FALSE]
Selection(boat) == [selected |-> TRUE, boat |-> boat]

\* The page's position as the `center` prop.
MapCenters == {[lat |-> 14, lon |-> 101], [lat |-> 15, lon |-> 102]}

\* MapContainer's initial view.
DefaultCamera == [lat |-> 13, lon |-> 100, zoom |-> 13]

\* colorFor of either revision.
ColorForBusyGray(variant, status) ==
    IF status = "available" THEN "#2ecc71"
    ELSE IF status = "booked" THEN "#f1c40f"
    ELSE "#95a5a6"

ColorFor(variant, status) ==
    IF variant = "components"
    THEN IF status = "available" THEN "#2ecc71"
         ELSE IF status = "busy" THEN "#e74c3c"
         ELSE IF status = "booked" THEN "#f1c40f"
         ELSE IF status = "maintenance" THEN "#95a5a6"
         ELSE "#95a5a6"
    ELSE IF status = "available" THEN "#2ecc71"
         ELSE IF status = "busy" THEN "#e74c3c"
         ELSE IF status = "booked" THEN "#f1c40f"
         ELSE "#95a5a6"

\* The status dot of a sidebar row: a ternary chain in the page.
SidebarColor(status) ==
    IF status = "available" THEN "#2ecc71"
    ELSE IF status = "busy" THEN "#e74c3c"
    ELSE IF status = "booked" THEN "#f1c40f"
    ELSE "#95a5a6"

\* selectedBoat?.id === boat.id
IsSelected(variant, sel, boat) ==
    variant = "selection" /\ sel.selected /\ sel.boat.id = boat.id

\* pathOptions and radius of a boat's CircleMarker.
MarkerStyle(variant, sel, boat) ==
    IF variant = "components"
    THEN [radius |-> 8, color |-> ColorFor(variant, boat.status),
          fillColor |-> ColorFor(variant, boat.status)]
    ELSE [radius |-> IF IsSelected(variant, sel, boat) THEN 12 ELSE 8,
          color |-> IF IsSelected(variant, sel, boat) THEN "#007aff"
                    ELSE ColorFor(variant, boat.status),
          fillColor |-> ColorFor(variant, boat.status)]

\* FlyToBoat's effect body: whether it calls map.setView.
FliesTo(boat) == boat.latitude # 0 /\ boat.longitude # 0

\* The camera after the effects that follow a change of selectedBoat.
CameraAfterSelect(variant, camera, boat) ==
    IF variant = "selection" /\ FliesTo(boat)
    THEN [lat |-> boat.latitude, lon |-> boat.longitude, zoom |-> 15]
    ELSE camera

\* FlyTo / FlyToComponent: the camera follows the `center` prop.
CameraAfterCenter(camera, center) == [lat |-> center.lat, lon |-> center.lon, zoom |-> 14]

MapInit ==
    [variant |-> "none", selectedBoat |-> NoSelection, camera |-> DefaultCamera,
     lastOp |-> "none", moved |-> FALSE]

\* The page renders its map for the first time.
MapMount(variant) ==
    /\ leaflet.variant = "none"
    /\ leaflet' = [leaflet EXCEPT !.variant = variant, !.lastOp = "mount", !.moved = FALSE]
    /\ UNCHANGED appVars

\* handleBoatClick from the sidebar or from a marker: setSelectedBoat(boat),
\* then the render's effects.
SelectBoat(boat) ==
    /\ leaflet.variant # "none"
    /\ leaflet.selectedBoat # Selection(boat)
    /\ leaflet' = [leaflet EXCEPT !.selectedBoat = Selection(boat),
                                  !.camera = CameraAfterSelect(leaflet.variant, @, boat),
                                  !.lastOp = "select",
                                  !.moved = leaflet.variant = "selection" /\ FliesTo(boat)]
    /\ UNCHANGED appVars

\* The page's position changes.
CenterChanges(center) ==
    /\ leaflet.variant # "none"
    /\ leaflet' = [leaflet EXCEPT !.camera = CameraAfterCenter(@, center),
                                  !.lastOp = "center", !.moved = TRUE]
    /\ UNCHANGED appVars

(***************************************************************************)
(* The list state between two renders.  setBoats puts an update on the     *)
(* state's queue; the next render runs the queue in order, each update on  *)
(* the result of the one before it.                                        *)
(***************************************************************************)
\* A third row, which no event of a burst is about.
R3 == NearbyRow("b3", 1, 15, 102, 6000)

\* The lists a burst can find rendered.
BurstLists == ResponseLists \cup {<<R1, R3, R2>>, <<R3, R2, R1>>}

\* Events of a burst: deletes of either row with any payload, and writes of
\* b1 as the backend sends them (an INSERT has no `old`, the `old` of an
\* UPDATE is the row's key).
BurstEvents ==
    {e \in ChangeEvents : /\ e.new \in {Absent, BoatRow("b1", 2)}
                          /\ e.old.present => e.old.id \in Ids
                          /\ e.eventType = "INSERT" => ~e.old.present
                          /\ (e.eventType = "UPDATE" /\ e.old.present) =>
                                 (e.new.present /\ e.old.id = e.new.id)}

\* setBoats((current) => ...): the update is the handler's arrow function
\* with the event it closes over.
FunctionUpdate(s, e) == [kind |-> "function", strategy |-> s, event |-> e, value |-> << >>]

\* setBoats(list): the update is a list.
ValueUpdate(s, e, list) == [kind |-> "value", strategy |-> s, event |-> e, value |-> list]

\* A handler that computes the next list from the list of the render that
\* created it.
EnqueuedSnapshot(s, rendered, queue, e) ==
    IF ListAfter(s, rendered, e) # rendered
    THEN Append(queue, ValueUpdate(s, e, ListAfter(s, rendered, e)))
    ELSE queue

\* The queue after the handler ran on e: Strategy A calls setBoats in the
\* DELETE branch under if (id), Strategy B for every event that is not
\* dropped.  `rendered` is the list of the render that created the handler.
Enqueued(s, rendered, queue, e) ==
    IF s = "A"
    THEN IF BranchA(e) = "delete" /\ DeleteId(e) \notin {Undef, Throw}
         THEN Append(queue, FunctionUpdate(s, e))
         ELSE queue
    ELSE IF ~Malformed(e) THEN Append(queue, FunctionUpdate(s, e)) ELSE queue

\* One update applied to the state it finds.
Applied(update, current) ==
    IF update.kind = "value" THEN update.value
    ELSE IF update.strategy = "A"
         THEN Filter(current, DeleteId(update.event))
         ELSE UpdaterB(current, update.event)

RECURSIVE Processed(_, _)
\* The render's pass over the queue.
Processed(current, queue) ==
    IF queue = << >> THEN current
    ELSE Processed(Applied(Head(queue), current), Tail(queue))

BatchInit ==
    [rendered |-> << >>, queue |-> << >>, events |-> << >>, list |-> << >>,
     lastOp |-> "none"]

\* A render commits the list a response brought; nothing is queued.
BurstBegins(list) ==
    /\ batch.queue = << >>
    /\ batch' = [rendered |-> list, queue |-> << >>, events |-> << >>,
                 list |-> list, lastOp |-> "render"]
    /\ UNCHANGED <<strategy, boats, loading, error, position, inflight, timers,
                   raised, since, last, hook, page, liff, geo, feed, ops, leaflet>>

\* The channel delivers e before the component has rendered again.
Delivered(e) ==
    /\ batch.lastOp \in {"render", "deliver"}
    /\ Len(batch.events) < MaxBurst
    /\ batch' = [batch EXCEPT !.queue = Enqueued(strategy, batch.rendered, @, e),
                              !.events = Append(@, e),
                              !.lastOp = "deliver"]
    /\ UNCHANGED <<strategy, boats, loading, error, position, inflight, timers,
                   raised, since, last, hook, page, liff, geo, feed, ops, leaflet>>

\* The next render.
Rerendered ==
    /\ batch.lastOp = "deliver"
    /\ batch' = [batch EXCEPT !.list = Processed(batch.list, batch.queue),
                              !.queue = << >>,
                              !.lastOp = "rerender"]
    /\ UNCHANGED <<strategy, boats, loading, error, position, inflight, timers,
                   raised, since, last, hook, page, liff, geo, feed, ops, leaflet>>

(***************************************************************************)
(* Timers and requests that outlive the page.  The cleanups of the page    *)
(* close the channel and clear the watch; nothing clears a refetch timer   *)
(* or cancels a request, and the hook's `mounted` flag is never read.      *)
(* After the unmount the state setters change nothing.                     *)
(***************************************************************************)
\* A handler of the mounted page.
WhileMounted(step) == page.phase = "mounted" /\ step

\* A due timer of the unmounted page runs its callback: refetch() passes
\* the null guard with the position of its render and calls the backend;
\* setLoading(true) and setError(null) change nothing.
TimerFireUnmounted ==
    /\ page.phase = "gone"
    /\ timers # << >>
    /\ Due(Head(timers))
    /\ timers' = Tail(timers)
    /\ inflight' = IF Head(timers).pos = Null THEN inflight
                   ELSE Append(inflight, [pos |-> Head(timers).pos, overtaken |-> FALSE])
    /\ since' = IF Head(timers).pos # Null THEN 0 ELSE since
    /\ last' = Step("refetch", Undef, FALSE)
    /\ UNCHANGED <<strategy, boats, loading, error, position, raised>>
    /\ UNCHANGED others

\* The answer of request k arrives at the unmounted page: setBoats,
\* setError and setLoading change nothing.
RpcReturnsUnmounted(k, res) ==
    /\ page.phase = "gone"
    /\ k \in 1..Len(inflight)
    /\ inflight' = StillInflight(inflight, k)
    /\ last' = Step(IF res.failed THEN "rpcFailed" ELSE "rpcOk",
                    IF inflight[k].overtaken THEN "overtaken" ELSE Undef, FALSE)
    /\ UNCHANGED <<strategy, boats, loading, error, position, timers, raised, since>>
    /\ UNCHANGED others

(***************************************************************************)
(* Specification                                                           *)
(***************************************************************************)
Init ==
    /\ strategy \in Strategies
    /\ boats = << >>
    /\ loading = FALSE
    /\ error = Null
    /\ position = Null
    /\ inflight = << >>
    /\ timers = << >>
    /\ raised = FALSE
    /\ since = DebounceMs
    /\ last = Step("init", Undef, FALSE)
    /\ hook = HookInit
    /\ page = PageInit
    /\ liff = LiffInit
    /\ geo = GeoInit
    /\ feed = FeedInit
    /\ ops = OpsInit
    /\ leaflet = MapInit
    /\ batch = BatchInit

Next ==
    \/ \E e \in ChangeEvents : HandleRealtimeA(e)
    \/ \E e \in ChangeEvents : HandleRealtimeB(e)
    \/ \E k \in 1..MaxInflight, res \in RpcResults : RpcReturns(k, res)
    \/ \E p \in Positions : SetPosition(p)
    \/ TimerFire
    \/ Tick

Spec == Init /\ [][Next]_vars

\* The event loop runs a due timer callback, and time passes.
FairSpec == Spec /\ WF_vars(TimerFire) /\ WF_vars(Tick)

\* useNearbyBoats on its own, driven by renders and manual refetches.
NextHook ==
    \/ \E opts \in HookOptions : HookMount(opts)
    \/ \E opts \in HookOptions : HookRender(opts)
    \/ \E params \in RefetchParams : HookRefetch(params)
    \/ \E k \in 1..MaxCalls, res \in RpcResults : HookRpcReturns(k, res)

InitHook == Init /\ strategy = "A"

SpecHook == InitHook /\ [][NextHook]_vars

\* The page's lifecycle from mount to unmount.
NextPage ==
    \/ \E env \in Environments : PageMount(env)
    \/ \E sdk \in BOOLEAN : ScriptOnload(sdk)
    \/ ScriptError
    \/ \E inClient \in BOOLEAN, isLoggedIn \in BOOLEAN : InitResolves(inClient, isLoggedIn)
    \/ InitRejects
    \/ \E profile \in Profiles : ProfileReturns(profile)
    \/ \E m \in Samples : PositionSample(m)
    \/ PositionError
    \/ HookStateUpdate
    \/ ChannelJoined
    \/ RowChanges
    \/ Unmount

SpecPage == Init /\ [][NextPage]_vars

\* The hooks' remote calls against the client the environment gives.
NextClient ==
    \/ \E hasEnvVars \in BOOLEAN : CreateClient(hasEnvVars)
    \/ \E op \in RemoteOps : CallRemote(op)
    \/ \E k \in 1..MaxOps, outcome \in {NotConfigured, "ok", "rpc error", "rejected"} :
           RemoteSettles(k, outcome)
    \/ OpenChannel
    \/ CloseChannel

SpecClient == InitHook /\ [][NextClient]_vars

\* The asynchronous calls that can fail: the hooks' remote calls and the
\* session bootstrap.
NextFailures ==
    \/ NextClient
    \/ \E env \in Environments : PageMount(env)
    \/ \E sdk \in BOOLEAN : ScriptOnload(sdk)
    \/ ScriptError
    \/ \E inClient \in BOOLEAN, isLoggedIn \in BOOLEAN : InitResolves(inClient, isLoggedIn)
    \/ InitRejects
    \/ \E profile \in Profiles : ProfileReturns(profile)

SpecFailures == Init /\ [][NextFailures]_vars

\* The map under selections and position changes.
NextMap ==
    \/ \E variant \in MapVariants : MapMount(variant)
    \/ \E boat \in MapBoats : SelectBoat(boat)
    \/ \E center \in MapCenters : CenterChanges(center)

SpecMap == InitHook /\ [][NextMap]_vars

\* Bursts of change events between renders.
NextBurst ==
    \/ \E list \in BurstLists : BurstBegins(list)
    \/ \E e \in BurstEvents : Delivered(e)
    \/ Rerendered

SpecBurst == Init /\ [][NextBurst]_vars

\* The page from mount to unmount with its handlers, and what is left
\* running afterwards.
NextTeardown ==
    \/ \E env \in Environments : PageMount(env)
    \/ \E e \in BurstEvents : WhileMounted(HandleRealtimeA(e))
    \/ \E e \in BurstEvents : WhileMounted(HandleRealtimeB(e))
    \/ \E k \in 1..MaxInflight, res \in RpcResults : WhileMounted(RpcReturns(k, res))
    \/ \E p \in Positions : WhileMounted(SetPosition(p))
    \/ WhileMounted(TimerFire)
    \/ Tick
    \/ Unmount
    \/ TimerFireUnmounted
    \/ \E k \in 1..MaxInflight, res \in RpcResults : RpcReturnsUnmounted(k, res)

SpecTeardown == Init /\ [][NextTeardown]_vars

TypeOK ==
    /\ strategy \in Strategies
    /\ loading \in BOOLEAN
    /\ error \in {Null, "rpc error"}
    /\ position \in Positions \cup {Null}
    /\ Len(inflight) <= MaxInflight
    /\ Len(timers) <= MaxTimers
    /\ raised \in BOOLEAN
    /\ since \in 0..DebounceMs


(***************************************************************************)
(* Properties                                                              *)
(***************************************************************************)
Unique(list) ==
    \A i, j \in 1..Len(list) : i # j => list[i].id # list[j].id

\* C1: list state never holds two entries with the same id, whatever
\* change events and query responses (rows with distinct ids) were applied,
\* under the refetch-on-write handler and under the optimistic-merge handler.
C1_IdUniqueness == Unique(boats)

\* Two entries, the second one just merged over an existing entry.
C1_Witness ==
    /\ strategy = "B"
    /\ Len(boats) = 2
    /\ last.op = "merge"
    /\ last.had

\* C2: when the change events end with a DELETE for id X (possibly
\* repeated), list state has no entry with id X and the handler did not
\* raise, in both strategies.
C2_DeleteRemoves ==
    (last.op = "delete" /\ last.id \in Ids) =>
        (last.id \notin IdsOf(boats) /\ ~raised)

\* A DELETE just removed an entry and left another one in the list.
C2_Witness ==
    /\ last.op = "delete"
    /\ last.id \in Ids
    /\ last.had
    /\ boats # << >>

\* Well-formed DELETE events.
DeleteEvents ==
    {e \in ChangeEvents : e.eventType = "DELETE" /\ (e.new.present \/ e.old.present)}

\* The id a DELETE is for: old.id when there is one, new.id otherwise.
DeletedId(e) ==
    IF e.old.present /\ e.old.id # Undef THEN e.old.id
    ELSE IF e.new.present THEN e.new.id ELSE Undef

\* C3: a DELETE event whose id is not in list state is a no-op: same
\* entries, same field values, same order; no refetch timer is scheduled
\* and nothing is raised.
C3_DeleteAbsentNoOp ==
    \A e \in DeleteEvents :
        DeletedId(e) \notin IdsOf(boats) =>
            /\ ListAfter(strategy, boats, e) = boats
            /\ TimersAfter(strategy, timers, position, e) = timers
            /\ ~Throws(strategy, e)

\* A DELETE for an id that was not in a non-empty list has been handled.
C3_Witness ==
    /\ last.op = "delete"
    /\ last.id \in Ids
    /\ ~last.had
    /\ boats # << >>
    /\ ~raised

\* Events with neither payload.
MalformedEvents ==
    {e \in ChangeEvents : ~e.new.present /\ ~e.old.present}

\* C4: a malformed event (new and old both absent) of any eventType is
\* dropped: list state unchanged, no refetch timer scheduled, nothing raised.
C4_MalformedDropped ==
    \A e \in MalformedEvents :
        /\ ListAfter(strategy, boats, e) = boats
        /\ TimersAfter(strategy, timers, position, e) = timers
        /\ ~Throws(strategy, e)

\* A malformed event has been handled while the list was not empty.
C4_Witness ==
    /\ last.op = "drop"
    /\ boats # << >>
    /\ ~raised

\* C5: applying a change event twice in a row leaves the list state the
\* first application produced, for every list state and every event, in
\* both strategies.
C5_Idempotent ==
    \A e \in ChangeEvents :
        ListAfter(strategy, ListAfter(strategy, boats, e), e)
            = ListAfter(strategy, boats, e)

\* An event was merged over an existing entry of its id, whose distance it kept.
C5_Witness ==
    /\ strategy = "B"
    /\ last.op = "merge"
    /\ last.had
    /\ \E i \in 1..Len(boats) :
          boats[i].id = last.id /\ boats[i].latitude = 0 /\ boats[i].distance_m = 800


\* Well-formed INSERT and UPDATE events.
WriteEvents ==
    {e \in ChangeEvents :
        e.eventType \in {"INSERT", "UPDATE"} /\ (e.new.present \/ e.old.present)}

\* C6: Strategy A: a well-formed INSERT or UPDATE leaves list state as it
\* is and schedules one refetch timer; a timer leaves the pending timers
\* only by invoking refetch when it is 300 ms old; and every such event is
\* eventually followed by a refetch call.
C6_WriteSchedulesRefetch ==
    /\ [](strategy = "A" =>
            \A e \in WriteEvents :
                /\ ListAfter(strategy, boats, e) = boats
                /\ TimersAfter(strategy, timers, position, e)
                      = Append(timers, [age |-> 0, pos |-> position]))
    /\ [][Len(timers') < Len(timers) =>
             /\ Head(timers).age = DebounceMs
             /\ timers' = Tail(timers)
             /\ last'.op = "refetch"]_vars
    /\ (last.op = "schedule") ~> (last.op = "refetch")

\* A refetch timer has fired and issued a remote call.
C6_Witness ==
    /\ strategy = "A"
    /\ last.op = "refetch"
    /\ inflight # << >>
    /\ since = 0

\* C7: Strategy A: INSERT/UPDATE events arriving within one 300 ms window
\* cause at most one remote nearby-query call: a refetch timer issues a
\* remote call only when no other timer issued one in the last 300 ms.
C7_OneCallPerWindow ==
    [][(last'.op = "refetch" /\ Len(inflight') > Len(inflight)) =>
          since = DebounceMs]_vars

\* pending, d milliseconds later
Aged(pending, d) ==
    [i \in 1..Len(pending) |-> [pending[i] EXCEPT !.age = @ + d]]

\* C8: Strategy A: a pending refetch timer is never cancelled or reset by
\* a later write: in every step the pending timers stay as they are, get
\* one new timer appended behind them, grow older together without passing
\* 300 ms, or lose their oldest timer because it fires at exactly 300 ms.
C8_SimpleDelay ==
    [][\/ timers' = timers
       \/ timers' = Append(timers, [age |-> 0, pos |-> position])
       \/ /\ timers # << >>
          /\ Head(timers).age = DebounceMs
          /\ timers' = Tail(timers)
          /\ last'.op = "refetch"
       \/ \E d \in 1..TickMs :
             /\ timers' = Aged(timers, d)
             /\ \A i \in 1..Len(timers') : timers'[i].age <= DebounceMs]_vars

\* A write arrived inside the window of an older, still pending timer.
C8_Witness ==
    /\ Len(timers) = 2
    /\ last.op = "schedule"
    /\ timers[1].age > 0
    /\ timers[1].age < DebounceMs
    /\ timers[2].age = 0

RECURSIVE IsSubSeq(_, _)
\* a is b with some entries left out
IsSubSeq(a, b) ==
    IF a = << >> THEN TRUE
    ELSE IF b = << >> THEN FALSE
    ELSE IF Head(a) = Head(b) THEN IsSubSeq(Tail(a), Tail(b))
    ELSE IsSubSeq(a, Tail(b))

\* Every row a query response can carry.
ResponseRows == UNION {Range(d) : d \in ResponseLists}

\* C9: Strategy A never fabricates entries: every entry is a row of a
\* query response, never one with coordinates (0,0); a step that is not
\* the arrival of a response leaves a sub-list of the list; and a change
\* event can only remove entries.
C9_NoFabrication ==
    /\ [](strategy = "A" =>
            /\ \A i \in 1..Len(boats) :
                  /\ boats[i] \in ResponseRows
                  /\ ~(boats[i].latitude = 0 /\ boats[i].longitude = 0)
            /\ \A e \in ChangeEvents : IsSubSeq(ListAfter(strategy, boats, e), boats))
    /\ [][strategy = "A" =>
             \/ IsSubSeq(boats', boats)
             \/ \E k \in 1..MaxInflight, res \in RpcResults : RpcReturns(k, res)]_vars

\* An INSERT/UPDATE for an id that is not in the list was handled and the
\* list, which came from a response, is as it was.
C9_Witness ==
    /\ strategy = "A"
    /\ last.op = "schedule"
    /\ last.id \in Ids
    /\ ~last.had
    /\ boats # << >>

\* INSERT and UPDATE events carrying `new`.
MergeEvents ==
    {e \in ChangeEvents : e.eventType \in {"INSERT", "UPDATE"} /\ e.new.present}

\* C10: Strategy B: an INSERT or UPDATE carrying `new` for an id that is
\* not in list state adds exactly one entry, behind the others, with
\* distance_m = 0, latitude = longitude = 0 and the other fields copied
\* from `new`; the other entries are unchanged.
C10_MergeNewId ==
    strategy = "B" =>
        \A e \in MergeEvents :
            e.new.id \notin IdsOf(boats) =>
                LET after == ListAfter(strategy, boats, e) IN
                /\ Len(after) = Len(boats) + 1
                /\ SubSeq(after, 1, Len(boats)) = boats
                /\ after[Len(after)] =
                      [id |-> e.new.id, name |-> e.new.name,
                       status |-> e.new.status, boat_type |-> e.new.boat_type,
                       capacity |-> e.new.capacity,
                       price_per_hour |-> e.new.price_per_hour,
                       updated_at |-> e.new.updated_at,
                       latitude |-> 0, longitude |-> 0, distance_m |-> 0]

\* A new id was merged behind an entry that came from a response.
C10_Witness ==
    /\ strategy = "B"
    /\ last.op = "merge"
    /\ last.id \in Ids
    /\ ~last.had
    /\ Len(boats) = 2
    /\ boats[1] \in ResponseRows
    /\ boats[2].id = last.id
    /\ boats[2].distance_m = 0
    /\ boats[2].latitude = 0


\* C11: Strategy B: an INSERT or UPDATE carrying `new` for an id that is
\* already in list state replaces that entry, in its place, by the fields
\* of `new` with the entry's previous distance_m and latitude = longitude
\* = 0; the number of entries and all other entries are unchanged.
C11_MergeExistingId ==
    strategy = "B" =>
        \A e \in MergeEvents :
            \A k \in 1..Len(boats) :
                boats[k].id = e.new.id =>
                    LET after == ListAfter(strategy, boats, e) IN
                    /\ Len(after) = Len(boats)
                    /\ \A i \in 1..Len(boats) : i # k => after[i] = boats[i]
                    /\ after[k] =
                          [id |-> e.new.id, name |-> e.new.name,
                           status |-> e.new.status, boat_type |-> e.new.boat_type,
                           capacity |-> e.new.capacity,
                           price_per_hour |-> e.new.price_per_hour,
                           updated_at |-> e.new.updated_at,
                           latitude |-> 0, longitude |-> 0,
                           distance_m |-> boats[k].distance_m]

\* The first of two response rows was replaced by its projection: its
\* coordinates are gone, its distance is kept, the other row is as it was.
C11_Witness ==
    /\ strategy = "B"
    /\ last.op = "merge"
    /\ last.had
    /\ Len(boats) = 2
    /\ boats[1].id = last.id
    /\ boats[1].latitude = 0
    /\ boats[1].longitude = 0
    /\ boats[1].distance_m > 0
    /\ boats[2] \in ResponseRows


\* C12: a successful nearby-query response replaces list state wholesale:
\* right after it is applied the list is exactly the returned rows, the empty
\* list when the response data is null, whatever the list was before.
C12_ResponseReplaces ==
    [][Len(inflight') < Len(inflight) =>
           \A k \in 1..Len(inflight) : \A res \in RpcResults :
               (RpcReturns(k, res) /\ ~res.failed) =>
                   boats' = IF res.hasData THEN res.data ELSE << >>]_vars

\* A successful response has just emptied a list that held entries.
C12_Witness ==
    /\ last.op = "rpcOk"
    /\ last.had
    /\ boats = << >>

\* C13: when a nearby query fails, list state is left as it was, the error
\* value becomes non-null, loading becomes false and nothing is thrown to the
\* caller.
C13_FailureKeepsList ==
    [][Len(inflight') < Len(inflight) =>
           \A k \in 1..Len(inflight) : \A res \in RpcResults :
               (RpcReturns(k, res) /\ res.failed) =>
                   /\ boats' = boats
                   /\ error' # Null
                   /\ loading' = FALSE
                   /\ raised' = raised]_vars

\* A query has just failed while the list held entries.
C13_Witness ==
    /\ last.op = "rpcFailed"
    /\ ~last.had
    /\ boats # << >>
    /\ error # Null
    /\ ~loading
    /\ ~raised

\* C14: overlapping nearby queries are never cancelled, a request leaves the
\* set of pending requests only by its own answer, and an answer is applied
\* when it arrives even when a request issued later was answered before it.
C14_LastArrivalWins ==
    [][Len(inflight') < Len(inflight) =>
           /\ \E k \in 1..Len(inflight) : \E res \in RpcResults : RpcReturns(k, res)
           /\ \A k \in 1..Len(inflight) : \A res \in RpcResults :
                  (RpcReturns(k, res) /\ ~res.failed /\ inflight[k].overtaken) =>
                      boats' = IF res.hasData THEN res.data ELSE << >>]_vars

\* The answer of an earlier request arrived last, after the answer of a later
\* request, and changed the list; no request is pending any more.
C14_Witness ==
    /\ last.op = "rpcOk"
    /\ last.id = "overtaken"
    /\ last.had
    /\ boats # << >>
    /\ inflight = << >>

\* C15: Strategy A: the refetch that fires from the 300 ms timer queries
\* with the position current when the timer fires: it issues a remote call
\* for that position, and none only when no position is known yet.
C15_RefetchUsesLatest ==
    [][Len(timers') < Len(timers) =>
           IF position = Null
           THEN inflight' = inflight
           ELSE /\ Len(inflight') = Len(inflight) + 1
                /\ inflight'[Len(inflight')].pos = position]_vars

\* The remote call the hook's current options ask for.
CurrentQuery(h) ==
    [lat |-> h.lat, lon |-> h.lon, radius_km |-> h.radiusKm, boat_status |-> h.status]

\* C16: with auto-fetch enabled, the first render and every render that
\* changes position, radius or status filter to a configuration with
\* non-null latitude and longitude issues exactly one nearby query with the
\* new values; any other render issues none and leaves boats, loading and
\* error alone; a query attempted with null latitude or longitude makes no
\* remote call and changes neither boats, loading nor error.
C16_AutoFetch ==
    [][/\ (hook' # hook /\ hook'.step \in {"mount", "render"}) =>
              IF /\ hook'.step = "mount" \/ Deps(hook') # Deps(hook)
                 /\ hook'.autoFetch
                 /\ hook'.lat # Null
                 /\ hook'.lon # Null
              THEN /\ hook'.calls = Append(hook.calls, CurrentQuery(hook'))
                   /\ hook'.boats = hook.boats
              ELSE /\ hook'.calls = hook.calls
                   /\ hook'.boats = hook.boats
                   /\ hook'.loading = hook.loading
                   /\ hook'.error = hook.error
       /\ \A params \in RefetchParams :
              LET q == RpcParams(hook, params)
                  after == FetchNearbyWith(hook, params) IN
              (q.lat = Null \/ q.lon = Null) =>
                  /\ after.calls = hook.calls
                  /\ after.boats = hook.boats
                  /\ after.loading = hook.loading
                  /\ after.error = hook.error]_vars

\* A render changed the radius while a list was shown, and the one query it
\* issued carries the new options.
C16_Witness ==
    /\ hook.step = "render"
    /\ hook.issued
    /\ hook.autoFetch
    /\ hook.radiusKm = "10"
    /\ hook.boats # << >>
    /\ hook.calls = <<CurrentQuery(hook)>>

\* C17: Strategy A's tracker: the first sample after the watch starts is
\* accepted unconditionally; a later sample is accepted, becoming position
\* state and the new reference, only when it is strictly more than 50 m from
\* the last accepted sample; otherwise position state and the reference stay
\* as they are. Once a sample was accepted, position state is the last
\* accepted sample.
C17_MovementGate ==
    strategy = "A" =>
        /\ geo.lastPosition.fix => page.position = geo.lastPosition
        /\ geo.watching =>
               \A m \in Samples :
                   LET pos == PositionAfter(strategy, geo, page.position, Fix(m))
                       ref == WatchAfter(strategy, geo, Fix(m)).lastPosition IN
                   IF ~geo.lastPosition.fix
                   THEN pos = Fix(m) /\ ref = Fix(m)
                   ELSE IF Abs(m - geo.lastPosition.m) > MoveThresholdM
                   THEN pos = Fix(m) /\ ref = Fix(m)
                   ELSE pos = page.position /\ ref = geo.lastPosition

\* The sample at 60 m was accepted; the latest sample, exactly 50 m further,
\* was discarded.
C17_Witness ==
    /\ strategy = "A"
    /\ geo.watching
    /\ geo.lastPosition = Fix(60)
    /\ geo.raw = Fix(110)
    /\ page.position = Fix(60)

\* The channels that are not closed.
OpenChannels(f) == {i \in 1..Len(f.channels) : f.channels[i].state # "closed"}

\* C18: every change-feed channel that is opened is closed exactly once, on
\* unmount or when the registered callback changes; at most one channel is
\* open at any time; the geolocation watch is cleared on teardown; after
\* the release no change event is delivered and no callback changes the
\* page's state, the watch or the channels.
C18_Release ==
    /\ [](/\ \A i \in 1..Len(feed.channels) :
                /\ feed.channels[i].closes <= 1
                /\ feed.channels[i].state = "closed" <=> feed.channels[i].closes = 1
          /\ Cardinality(OpenChannels(feed)) <= 1
          /\ page.phase = "mounted" => Cardinality(OpenChannels(feed)) = 1
          /\ page.phase = "gone" =>
                 /\ OpenChannels(feed) = {}
                 /\ ~geo.watching
                 /\ geo.cleared = IF geo.started THEN 1 ELSE 0)
    /\ [][page.phase = "gone" =>
              /\ page' = page
              /\ geo' = geo
              /\ feed'.channels = feed.channels
              /\ feed'.lastEvent \in {feed.lastEvent, "unheard"}]_vars

\* The page was unmounted after it had opened several channels and had
\* tracked a position; a row changed afterwards and nobody heard of it.
C18_Witness ==
    /\ page.phase = "gone"
    /\ Len(feed.channels) > 1
    /\ page.position.fix
    /\ geo.started
    /\ geo.cleared = 1
    /\ feed.lastEvent = "unheard"

\* C19: the change-feed channel opened at mount stays open as long as the
\* page is mounted: no render closes and reopens it, and no change event is
\* missed between an unsubscribe and the next subscription.
C19_OneSubscription ==
    /\ page.phase = "mounted" =>
           /\ Len(feed.channels) = 1
           /\ feed.channels[1].closes = 0
    /\ feed.lastEvent # "missed"

\* C20: with a configured LIFF id, when no bootstrap callback is pending
\* any more the mounted page is ready (liffReady), and the geolocation watch
\* is started where the browser supports it.
C20_BootstrapReady ==
    (liff.pc = "done" /\ liff.liffId /\ page.phase = "mounted") =>
        /\ page.liffReady
        /\ geo.supported => geo.started

\* C21: whenever liff.init() succeeded and the SDK reports the user as
\* logged in, the profile is requested; a user id the profile yields is
\* written to local storage, and lineUserId is non-null only if the same
\* value was stored.
C21_ProfilePersisted ==
    /\ (liff.outcome \in {"initialised", "outside client"} /\ liff.loggedIn) => liff.asked
    /\ liff.userId # Null => liff.stored = liff.userId
    /\ page.lineUserId # Null => liff.stored = page.lineUserId

\* C22: development mode of page A, the revision that has one: when the
\* LIFF id is empty or the placeholder, the page is ready from its mount on
\* and its position is set to the fixed fallback; the SDK is never loaded or
\* initialised, no profile is requested, and lineUserId stays null.
C22_DevMode ==
    /\ []((strategy = "A" /\ liff.pc # "start" /\ ~liff.liffId) =>
              /\ liff.outcome = "dev mode"
              /\ liff.pc = "done"
              /\ ~liff.sdkUsed
              /\ ~liff.asked
              /\ page.liffReady
              /\ page.lineUserId = Null
              /\ liff.stored = Null)
    /\ [][(strategy = "A" /\ liff.pc = "start" /\ liff'.pc # "start" /\ ~liff'.liffId) =>
              page'.position = DevPosition]_vars

\* Page A runs in dev mode at the fallback position and watches the position.
C22_Witness ==
    /\ strategy = "A"
    /\ liff.outcome = "dev mode"
    /\ page.phase = "mounted"
    /\ page.liffReady
    /\ page.position = DevPosition
    /\ geo.watching

\* C23: with the mock client (no backend credentials) every remote call that
\* has ended left the 'not configured' error in the hook that made it, and
\* neither a remote call nor opening or closing the change-feed channel
\* crashed.
C23_NotConfigured ==
    ops.client = "mock" =>
        /\ ~ops.crashed
        /\ ops.lastOp \in RemoteOps =>
               /\ ops.error[HookOf(ops.lastOp)] = NotConfigured
               /\ ~ops.loading[HookOf(ops.lastOp)]

\* C24: every asynchronous failure is caught where the call is made: a
\* remote call that failed left a non-null error in its hook, cleared the
\* loading flag and returned its failure value (false for checkAvailability,
\* null for updateBoatStatus and createBooking, nothing for fetchNearby);
\* nothing a hook calls crashed; a rejected liff.init() or getProfile() ran
\* its catch handler.
C24_FailuresCaught ==
    /\ ~ops.crashed
    /\ (ops.lastOp \in RemoteOps /\ ops.returned # "data") =>
           /\ ops.error[HookOf(ops.lastOp)] # Null
           /\ ~ops.loading[HookOf(ops.lastOp)]
           /\ ops.returned = IF ops.lastOp = "checkAvailability" THEN "false"
                             ELSE IF ops.lastOp = NearbyOp THEN "undefined"
                             ELSE "null"
    /\ \A op \in RemoteOps : \A err \in {NotConfigured, "rpc error", "rejected", Throw} :
           LET o == Failed(ops, op, err) IN
           /\ o.error[HookOf(op)] = err
           /\ ~o.loading[HookOf(op)]
    /\ liff.caught = liff.failure
    /\ liff.failure # "none" => liff.pc = "done"

\* createBooking failed with an rpc error while another call was pending,
\* and liff.init() had been rejected.
C24_Witness ==
    /\ ops.lastOp = "createBooking"
    /\ ops.returned = "null"
    /\ ops.error["boat"] = "rpc error"
    /\ ~ops.loading["boat"]
    /\ ops.pending # << >>
    /\ liff.failure = "init"
    /\ page.error = "init failed"

\* C25: a geolocation error sets the page's error message only: position
\* state, the tracker's reference and list state stay as they are and the
\* watch stays registered, so later samples are processed; without a
\* geolocation API the page gets the error message, no watch and no
\* reference, and keeps the position it had.
C25_GeolocationErrors ==
    /\ [](page.error = "geolocation unsupported" =>
              /\ ~geo.supported
              /\ ~geo.started
              /\ geo.lastPosition = NoFix
              /\ page.position \in {NoFix, DevPosition})
    /\ [][(page'.error = "geolocation error" /\ page.error # "geolocation error") =>
              /\ page' = [page EXCEPT !.error = "geolocation error"]
              /\ geo' = geo
              /\ geo'.watching
              /\ boats' = boats]_vars

\* A geolocation error is shown while the tracked position is kept and the
\* watch is still registered.
C25_Witness ==
    /\ page.error = "geolocation error"
    /\ geo.watching
    /\ page.position = Fix(60)
    /\ geo.lastPosition = Fix(60)
    /\ geo.raw = Fix(110)

\* C26: selecting a boat moves the camera to the boat's coordinates exactly
\* when the coordinates are not the (0,0) placeholder; a boat with only one
\* coordinate equal to 0 does move the camera.
C26_SelectionCamera ==
    (leaflet.variant = "selection" /\ leaflet.lastOp = "select") =>
        LET boat == leaflet.selectedBoat.boat IN
        /\ leaflet.moved <=> ~(boat.latitude = 0 /\ boat.longitude = 0)
        /\ leaflet.moved => /\ leaflet.camera.lat = boat.latitude
                            /\ leaflet.camera.lon = boat.longitude

\* The colour table of the specification.
StatusColour(status) ==
    CASE status = "available" -> "#2ecc71"
      [] status = "busy" -> "#e74c3c"
      [] status = "booked" -> "#f1c40f"
      [] OTHER -> "#95a5a6"

\* C27 as stated: fill and stroke colour of a marker depend on the boat's
\* status alone, so two markers with the same status have the same fill and
\* the same stroke.
C27_ColourByStatusAlone ==
    leaflet.variant # "none" =>
        \A b1 \in MapBoats, b2 \in MapBoats :
            b1.status = b2.status =>
                LET s1 == MarkerStyle(leaflet.variant, leaflet.selectedBoat, b1)
                    s2 == MarkerStyle(leaflet.variant, leaflet.selectedBoat, b2) IN
                s1.fillColor = s2.fillColor /\ s1.color = s2.color

\* C27, amended: the fill colour of a marker follows the colour table of the
\* status in both map revisions, as does the sidebar's status dot; the
\* stroke has the same colour, except for the selected boat's marker on the
\* selection-aware map, whose stroke is #007aff.
C27_MarkerColours ==
    leaflet.variant # "none" =>
        \A b \in MapBoats :
            LET style == MarkerStyle(leaflet.variant, leaflet.selectedBoat, b)
                emphasized == /\ leaflet.variant = "selection"
                              /\ leaflet.selectedBoat.selected
                              /\ leaflet.selectedBoat.boat.id = b.id IN
            /\ style.fillColor = StatusColour(b.status)
            /\ style.color = IF emphasized THEN "#007aff" ELSE StatusColour(b.status)
            /\ SidebarColor(b.status) = StatusColour(b.status)
            /\ \A v \in MapVariants : ColorFor(v, b.status) = StatusColour(b.status)

\* A busy boat is selected on the selection-aware map: its marker is drawn
\* red with the blue stroke.
C27_Witness ==
    /\ leaflet.variant = "selection"
    /\ leaflet.lastOp = "select"
    /\ leaflet.selectedBoat.boat.status = "busy"
    /\ MarkerStyle(leaflet.variant, leaflet.selectedBoat, leaflet.selectedBoat.boat)
           = [radius |-> 12, color |-> "#007aff", fillColor |-> "#e74c3c"]

RECURSIVE FoldEvents(_, _, _)
\* The left fold of the per-event transition over a list.
FoldEvents(s, list, events) ==
    IF events = << >> THEN list
    ELSE FoldEvents(s, ListAfter(s, list, Head(events)), Tail(events))

\* C28: change events delivered back to back before a re-render are each
\* applied to the list the previous one left: after the render the list is
\* the left fold of the per-event transition over the list rendered before
\* the burst, in both strategies.
C28_NoLostUpdates ==
    batch.lastOp = "rerender" =>
        batch.list = FoldEvents(strategy, batch.rendered, batch.events)

\* A full burst after which the list differs from what either
\* event alone makes of the list rendered before the burst.
C28_Witness ==
    /\ batch.lastOp = "rerender"
    /\ Len(batch.events) = MaxBurst
    /\ \A i \in 1..Len(batch.events) :
           batch.list # ListAfter(strategy, batch.rendered, batch.events[i])

\* The events of a burst that are about id x, by position.
EventsAbout(x) == {i \in 1..Len(batch.events) : EventId(batch.events[i]) = x}

\* C29: in Strategy B, whatever the order in which INSERT, UPDATE and DELETE
\* events for one id arrive, no event raises an error, the list has at most
\* one entry for the id, and the id is in the list exactly when the last
\* event for it is not a DELETE.
C29_OutOfOrder ==
    (strategy = "B" /\ batch.lastOp = "rerender") =>
        /\ \A i \in 1..Len(batch.events) : ~ThrowsB(batch.events[i])
        /\ \A x \in Ids :
               /\ Cardinality({j \in 1..Len(batch.list) : batch.list[j].id = x}) <= 1
               /\ EventsAbout(x) # {} =>
                      LET final == CHOOSE i \in EventsAbout(x) :
                                       \A j \in EventsAbout(x) : j <= i IN
                      x \in IdsOf(batch.list) <=> batch.events[final].eventType # "DELETE"

\* The events for b1 arrive backwards, DELETE, UPDATE, INSERT, on a list
\* that has b1: the row is in the list, once.
C29_Witness ==
    /\ strategy = "B"
    /\ batch.lastOp = "rerender"
    /\ "b1" \in IdsOf(batch.rendered)
    /\ Len(batch.events) = 3
    /\ EventsAbout("b1") = {1, 2, 3}
    /\ <<batch.events[1].eventType, batch.events[2].eventType, batch.events[3].eventType>>
           = <<"DELETE", "UPDATE", "INSERT">>
    /\ "b1" \in IdsOf(batch.list)

\* The id a DELETE names: old.id when present, otherwise new.id, otherwise
\* none.
ResolvedId(e) ==
    IF e.old.present /\ e.old.id # Undef THEN e.old.id
    ELSE IF e.new.present /\ e.new.id # Undef THEN e.new.id
    ELSE Undef

\* A list without its entries of id x, the others as they were.
Without(list, x) ==
    LET Other(b) == b.id # x IN SelectSeq(list, Other)

\* C30: a DELETE removes the entry whose id is old.id when that is present
\* and new.id otherwise; with no id in either payload the list stays as it
\* is; every other entry keeps its place and its contents.  Both for any
\* DELETE event on the current list and for the list rendered after a
\* DELETE was delivered.
C30_DeleteResolution ==
    /\ \A e \in DeleteEvents :
           /\ ListAfter(strategy, batch.list, e) = Without(batch.list, ResolvedId(e))
           /\ ResolvedId(e) = Undef => ListAfter(strategy, batch.list, e) = batch.list
    /\ (batch.lastOp = "rerender" /\ Len(batch.events) = 1
            /\ batch.events[1] \in DeleteEvents) =>
           batch.list = Without(batch.rendered, ResolvedId(batch.events[1]))

\* A DELETE whose old and new payloads name different rows took the row of
\* `old` out of a list of three and left the other two in their order.
C30_Witness ==
    /\ batch.lastOp = "rerender"
    /\ Len(batch.events) = 1
    /\ batch.events[1].eventType = "DELETE"
    /\ batch.events[1].old.present /\ batch.events[1].new.present
    /\ batch.events[1].old.id = "b2" /\ batch.events[1].new.id = "b1"
    /\ batch.rendered = <<R1, R3, R2>>
    /\ batch.list = <<R1, R3>>

\* C31 as stated: once a DELETE for an id has been applied, the answer of a
\* request that was already in flight (issued before the DELETE) does not
\* bring the id back into the list.
C31_StaysDeleted ==
    [][(last.op = "delete" /\ last.id \in Ids /\ last'.op = "rpcOk") =>
           last.id \notin IdsOf(boats')]_vars

\* C31, amended: a DELETE for an id that a response brought leaves the id
\* absent; the answer of a request issued before the DELETE that arrives
\* after it replaces the list like any other answer, so the id is in the
\* list again exactly when that answer is a success that has it.
C31_DeletedUntilResponse ==
    /\ [][(last'.op = "delete" /\ last'.id \in Ids /\ last'.id \in IdsOf(boats)) =>
              last'.id \notin IdsOf(boats')]_vars
    /\ [][\A k \in 1..MaxInflight, res \in RpcResults :
              (last.op = "delete" /\ last.id \in Ids /\ RpcReturns(k, res)) =>
                  (last.id \in IdsOf(boats') <=>
                       (~res.failed /\ res.hasData /\ last.id \in IdsOf(res.data)))]_vars

\* A DELETE has just taken b1 out of the list while a request issued before
\* it is still waiting for its answer.
C31_Witness ==
    /\ last.op = "delete"
    /\ last.id = "b1"
    /\ last.had
    /\ "b1" \notin IdsOf(boats)
    /\ inflight # << >>

\* C32: the hook's loading flag is true exactly while at least one nearby
\* query is in flight, also when two queries overlap and the first answer
\* arrives while the second is still awaited.
C32_LoadingTracksInflight ==
    loading <=> inflight # << >>

\* C33: once a successful answer has been applied and no query is in flight,
\* the hook's error is null: the failure of an overlapping request does not
\* stay displayed after the success of the request issued after it.
C33_ErrorOfLastResponse ==
    (last.op = "rpcOk" /\ inflight = << >>) => error = Null

\* The step in which the watch of a page in dev mode gets its first sample.
FirstDevSample ==
    /\ liff.outcome = "dev mode"
    /\ geo.watching
    /\ ~geo.raw.fix
    /\ geo'.raw.fix

\* In dev mode, on a browser with geolocation, the watch runs and has no
\* accepted reference until its first sample.
DevWatchStarted ==
    (liff.outcome = "dev mode" /\ page.phase = "mounted" /\ geo.supported) =>
        /\ page.liffReady
        /\ geo.watching
        /\ ~geo.raw.fix => (~geo.lastPosition.fix /\ page.position = DevPosition
                                /\ page.queries = 1)

\* C34 as stated: in dev mode the tracker is started with no accepted
\* reference, and its first sample replaces the fallback position whatever
\* its distance from it, and triggers a second nearby query.
C34_FirstSampleInDevMode ==
    /\ []DevWatchStarted
    /\ [][FirstDevSample =>
              /\ page'.position = geo'.raw
              /\ geo'.lastPosition = geo'.raw
              /\ page'.queries = 2]_vars

\* C34, amended: the first sample replaces the fallback position whatever
\* its distance from it, and triggers a second nearby query unless its
\* coordinates are exactly the fallback's.
C34_FirstSampleReplacesFallback ==
    /\ []DevWatchStarted
    /\ [][FirstDevSample =>
              /\ page'.position = geo'.raw
              /\ geo'.lastPosition = geo'.raw
              /\ page'.queries = IF geo'.raw = DevPosition THEN 1 ELSE 2]_vars

\* In dev mode a sample 10 m from the fallback position has become the
\* position, and the second query has been issued.
C34_Witness ==
    /\ liff.outcome = "dev mode"
    /\ geo.raw = Fix(1010)
    /\ geo.lastPosition = Fix(1010)
    /\ page.position = Fix(1010)
    /\ page.queries = 2

\* C35: once the page is torn down no nearby query is sent to the backend
\* and the list is not changed, whatever refetch timer or request was
\* pending at the teardown.
C35_QuietAfterTeardown ==
    [][page.phase = "gone" =>
           /\ boats' = boats
           /\ Len(inflight') <= Len(inflight)]_vars
=============================================================================
